---- MODULE Spec2Model ----
(***************************************************************************)
(* A model of vlq-rust: the standard continuation-bit codec of lib.rs      *)
(* (impl_primitive!), the BigUint codec of bigint.rs and the fast          *)
(* fixed-buffer codec of fast.rs.                                          *)
(*                                                                         *)
(* A fixed-width unsigned integer ($uty) is its little-endian sequence of  *)
(* bytes, size_of::<$ty>() bytes long, so that u64 and u128 arithmetic     *)
(* keeps its width.  A signed value is held as its two's-complement bit    *)
(* pattern: `self as $uty` and `value as $ty` keep every bit.  A BigUint   *)
(* is a natural number.                                                    *)
(***************************************************************************)
EXTENDS Integers, Sequences, FiniteSets, TLC

VARIABLES stream,   \* the bytes of the Cursor<Vec<u8>> / Vec<u8>
          pos,      \* the cursor position (bytes consumed or written so far)
          written,  \* the values written so far, in order: [ty, val]
          reads,    \* the results of the read_vlq calls since the rewind
          fin,      \* fast codec: the u64 given to encode
          fenc,     \* fast codec: the result of encode, <<>> before the call
          fdec      \* fast codec: the result of decode, <<>> before the call

vars == <<stream, pos, written, reads, fin, fenc, fdec>>

-----------------------------------------------------------------------------
(* Bounds of the model.                                                    *)

\* values written back-to-back to one stream
MaxValues == 2
\* bytes of a byte source that follow its run of zero groups
MaxLen == 2
\* length of the run of zero groups (0x00 bytes) a byte source may start with
MaxPad == 19
\* distance of a fast-codec input from a tier boundary
MaxDelta == 2
\* largest BigUint written
MaxBig == 300
\* bytes of a byte source read as a BigUint
MaxBigLen == 3

-----------------------------------------------------------------------------
(* Bytes and bit operations on them.                                       *)

Byte == 0..255

RECURSIVE BitAnd(_, _)
BitAnd(a, b) ==
    IF a = 0 \/ b = 0 THEN 0
    ELSE (IF a % 2 = 1 /\ b % 2 = 1 THEN 1 ELSE 0) + 2 * BitAnd(a \div 2, b \div 2)

RECURSIVE BitOr(_, _)
BitOr(a, b) ==
    IF a = 0 THEN b
    ELSE IF b = 0 THEN a
    ELSE (IF a % 2 = 1 \/ b % 2 = 1 THEN 1 ELSE 0) + 2 * BitOr(a \div 2, b \div 2)

\* u8::leading_zeros
RECURSIVE LeadingZerosFrom(_, _)
LeadingZerosFrom(b, top) ==
    IF top = 0 THEN 8
    ELSE IF b >= top THEN 0
    ELSE 1 + LeadingZerosFrom(b, top \div 2)

leading_zeros(b) == IF b = 0 THEN 8 ELSE LeadingZerosFrom(b, 128)

-----------------------------------------------------------------------------
(* Fixed-width unsigned integers as little-endian byte sequences.          *)

\* the sequence a function over 1..n denotes, enumerated once
Tuple(f) == f \o <<>>

UZero(nb) == Tuple([i \in 1..nb |-> 0])

\* `b as $uty` for a byte b
UFromByte(b, nb) == Tuple([i \in 1..nb |-> IF i = 1 THEN b ELSE 0])

\* `x as $uN`: truncation to, or zero extension to, nb bytes
UCast(x, nb) == Tuple([i \in 1..nb |-> IF i <= Len(x) THEN x[i] ELSE 0])

\* carry propagation over a sequence of column sums; the carry out is kept
RECURSIVE UCarry(_, _, _, _)
UCarry(cols, i, carry, acc) ==
    IF i > Len(cols) THEN [val |-> acc, carry |-> carry]
    ELSE LET t == cols[i] + carry
         IN UCarry(cols, i + 1, t \div 256, Append(acc, t % 256))

\* wrapping sum and whether it overflowed the width
UAdd(a, b) ==
    LET r == UCarry(Tuple([i \in 1..Len(a) |-> a[i] + b[i]]), 1, 0, <<>>)
    IN [val |-> r.val, ovf |-> r.carry # 0]

\* x * k for a factor k that fits a byte, and whether it overflowed
UMulByte(x, k) ==
    LET r == UCarry(Tuple([i \in 1..Len(x) |-> x[i] * k]), 1, 0, <<>>)
    IN [val |-> r.val, ovf |-> r.carry # 0]

\* borrow propagation
RECURSIVE UBorrow(_, _, _, _, _)
UBorrow(a, b, i, borrow, acc) ==
    IF i > Len(a) THEN [val |-> acc, ovf |-> borrow # 0]
    ELSE LET t == a[i] - b[i] - borrow
         IN IF t < 0 THEN UBorrow(a, b, i + 1, 1, Append(acc, t + 256))
            ELSE UBorrow(a, b, i + 1, 0, Append(acc, t))

\* wrapping difference and whether it underflowed
USub(a, b) == UBorrow(a, b, 1, 0, <<>>)

\* a < b, compared from the most significant byte down
RECURSIVE ULtFrom(_, _, _)
ULtFrom(a, b, i) ==
    IF i = 0 THEN FALSE
    ELSE IF a[i] # b[i] THEN a[i] < b[i]
    ELSE ULtFrom(a, b, i - 1)

ULt(a, b) == ULtFrom(a, b, Len(a))

\* x << 7 (bits shifted past the width are dropped, as `<<` does)
UShl7(x) ==
    Tuple([i \in 1..Len(x) |->
        ((x[i] * 128) % 256) + (IF i > 1 THEN x[i - 1] \div 2 ELSE 0)])

\* x >> 7
UShr7(x) ==
    Tuple([i \in 1..Len(x) |->
        (x[i] \div 128) + (IF i < Len(x) THEN (x[i + 1] % 128) * 2 ELSE 0)])

\* x << (8 * k)
UShlBytes(x, k) == Tuple([i \in 1..Len(x) |-> IF i > k THEN x[i - k] ELSE 0])

\* x >= 0x80
UGe0x80(x) == x[1] >= 128 \/ \E i \in 2..Len(x) : x[i] # 0

\* to_be_bytes
to_be_bytes(x) == Tuple([i \in 1..Len(x) |-> x[Len(x) + 1 - i]])

\* a natural number below 2^31 as an integer of nb bytes
RECURSIVE NatToU(_, _)
NatToU(v, nb) == IF nb = 0 THEN <<>> ELSE <<v % 256>> \o NatToU(v \div 256, nb - 1)

-----------------------------------------------------------------------------
(* The primitive types of impl_primitive!.                                 *)

Types == {"u8", "i8", "u16", "i16", "u32", "i32", "u64", "i64",
          "u128", "i128", "usize", "isize"}

\* std::mem::size_of::<$ty>() (a 64-bit target for usize and isize)
SizeOf(ty) ==
    CASE ty \in {"u8", "i8"} -> 1
      [] ty \in {"u16", "i16"} -> 2
      [] ty \in {"u32", "i32"} -> 4
      [] ty \in {"u64", "i64", "usize", "isize"} -> 8
      [] ty \in {"u128", "i128"} -> 16

Signed(ty) == ty \in {"i8", "i16", "i32", "i64", "i128", "isize"}

-----------------------------------------------------------------------------
(* impl_primitive!: to_writer.                                             *)

\* the length of vlq_buf; the _Short variant leaves out the + 1
VlqBufLen_Short(ty) == (SizeOf(ty) * 8) \div 7

VlqBufLen(ty) == (SizeOf(ty) * 8) \div 7 + 1

\* the loop test `n >= 0x80`; the _Gt variant is the off-by-one `n > 0x80`
MoreGroups_Gt(n) == n[1] > 128 \/ \E i \in 2..Len(n) : n[i] # 0

MoreGroups(n) == UGe0x80(n)

\* a byte of the loop: (n & 0b0111_1111) as u8
ContinuationByte(n) == BitAnd(n[1], 127)

\* the last byte: 0b1000_0000 | n as u8; the _NoFlag variant leaves the top
\* bit out
TerminalByte_NoFlag(n) == n[1]

TerminalByte(n) == BitOr(128, n[1])

\* the while loop and the store of the last byte; a store at an index that
\* is not below the buffer's length panics
RECURSIVE to_writer_loop(_, _, _)
to_writer_loop(n, buf, len) ==
    IF Len(buf) >= len THEN [status |-> "panic", bytes |-> buf]
    ELSE IF MoreGroups(n)
         THEN to_writer_loop(UShr7(n), Append(buf, ContinuationByte(n)), len)
         ELSE [status |-> "ok", bytes |-> Append(buf, TerminalByte(n))]

to_writer(ty, v) == to_writer_loop(v, <<>>, VlqBufLen(ty))

-----------------------------------------------------------------------------
(* impl_primitive!: from_reader.                                           *)

\* (buf[0] & 0x7f) as $uty . checked_mul(shift) . and_then(value.checked_add);
\* the _NoMask variant does not mask the top bit off
Accumulate_NoMask(value, shift, b) ==
    LET mul == UMulByte(shift, b)
        sum == UAdd(value, mul.val)
    IN [val |-> sum.val, ovf |-> mul.ovf \/ sum.ovf]

Accumulate(value, shift, b) ==
    LET mul == UMulByte(shift, BitAnd(b, 127))
        sum == UAdd(value, mul.val)
    IN [val |-> sum.val, ovf |-> mul.ovf \/ sum.ovf]

\* the break test (buf[0] & 0b1000_0000) != 0; the _Clear variant breaks on a
\* clear bit
IsTerminal_Clear(b) == BitAnd(b, 128) = 0

IsTerminal(b) == BitAnd(b, 128) # 0

RECURSIVE from_reader_loop(_, _, _, _)
from_reader_loop(s, p, value, shift) ==
    IF p >= Len(s)
    THEN [status |-> "eof", value |-> <<>>, pos |-> p]
    ELSE LET b == s[p + 1]
             acc == Accumulate(value, shift, b)
         IN IF acc.ovf
            THEN [status |-> "overflow", value |-> <<>>, pos |-> p + 1]
            ELSE IF IsTerminal(b)
                 THEN [status |-> "ok", value |-> acc.val, pos |-> p + 1]
                 ELSE from_reader_loop(s, p + 1, acc.val, UShl7(shift))

from_reader(ty, s, p) ==
    from_reader_loop(s, p, UZero(SizeOf(ty)), UFromByte(1, SizeOf(ty)))

-----------------------------------------------------------------------------
(* fast.rs: the fixed-buffer codec.  A FastVlq is a sequence of 9 bytes;   *)
(* byte n[k] of the source is element k + 1 here.                          *)

\* 2uN.pow(e) as an integer of nb bytes
Pow2(e, nb) == Tuple([i \in 1..nb |-> IF i = e \div 8 + 1 THEN 2 ^ (e % 8) ELSE 0])

\* the integer type of offset!(k): a literal, u16, u32, u32, then u64
OffsetSize(k) ==
    CASE k = 1 -> 4
      [] k = 2 -> 2
      [] k \in {3, 4} -> 4
      [] OTHER -> 8

\* offset!(k)
RECURSIVE offset(_)
offset(k) ==
    IF k = 1 THEN UZero(OffsetSize(1))
    ELSE UAdd(UCast(offset(k - 1), OffsetSize(k)), Pow2(7 * (k - 1), OffsetSize(k))).val

\* prefix!(k, target)
prefix(k, target) ==
    CASE k = 1 -> BitOr(target, 128)
      [] k \in 2..7 -> BitOr(BitAnd(2 ^ (8 - k) - 1, target), 2 ^ (8 - k))
      [] k = 8 -> 1
      [] OTHER -> 0

\* unprefix!(k, target); the _NoMask variant keeps the prefix bits
unprefix_NoMask(k, target) ==
    CASE k \in 1..7 -> target
      [] OTHER -> 0

unprefix(k, target) ==
    CASE k \in 1..7 -> BitAnd(target, 2 ^ (8 - k) - 1)
      [] OTHER -> 0

\* the integer type and the left shift, in bytes, of encode_offset!(k, n)
EncodeSize(k) ==
    CASE k = 2 -> 2
      [] k \in {3, 4} -> 4
      [] OTHER -> 8

EncodeShift(k) ==
    CASE k = 3 -> 1
      [] k = 5 -> 3
      [] k = 6 -> 2
      [] k = 7 -> 1
      [] OTHER -> 0

\* encode_offset!(k, n): ($n as uN - offset!(k)) << shift; ovf when the
\* subtraction underflows
encode_offset(k, n) ==
    LET d == USub(UCast(n, EncodeSize(k)), UCast(offset(k), EncodeSize(k)))
    IN [val |-> UShlBytes(d.val, EncodeShift(k)), ovf |-> d.ovf]

decode_len(b) == leading_zeros(b) + 1

\* a guard of encode_len: n < offset!(k + 1) as u64; the _Le variant tests <=
BelowTier_Le(n, k) == ~ULt(UCast(offset(k + 1), 8), n)

BelowTier(n, k) == ULt(n, UCast(offset(k + 1), 8))

RECURSIVE encode_len_from(_, _)
encode_len_from(n, k) ==
    IF k = 9 THEN 9
    ELSE IF BelowTier(n, k) THEN k
    ELSE encode_len_from(n, k + 1)

encode_len(n) == encode_len_from(n, 1)

\* encode: the FastVlq and whether a subtraction underflowed
encode(n) ==
    LET len == encode_len(n)
    IN IF len = 1
       THEN [vlq |-> Tuple([i \in 1..9 |-> IF i = 1 THEN prefix(1, n[1]) ELSE 0]),
             ovf |-> FALSE]
       ELSE LET e == encode_offset(len, n)
                buf == to_be_bytes(e.val)
            IN IF len \in 2..8
               THEN [vlq |-> Tuple([i \in 1..9 |->
                                IF i = 1 THEN prefix(len, buf[1])
                                ELSE IF i <= len THEN buf[i] ELSE 0]),
                     ovf |-> e.ovf]
               ELSE [vlq |-> Tuple([i \in 1..9 |->
                                IF i = 1 THEN prefix(9, buf[1]) ELSE buf[i - 1]]),
                     ovf |-> e.ovf]

\* FastVlq::len
FastVlqLen(vlq) == decode_len(vlq[1])

\* decode: the u64 and whether the addition overflowed
decode(vlq) ==
    LET len == FastVlqLen(vlq)
    IN IF len = 1
       THEN [val |-> UFromByte(unprefix(1, vlq[1]), 8), ovf |-> FALSE]
       ELSE IF len \in 2..8
       THEN UAdd(Tuple([i \in 1..8 |->
                    IF i < len THEN vlq[len - i + 1]
                    ELSE IF i = len THEN unprefix(len, vlq[1])
                    ELSE 0]),
                 UCast(offset(len), 8))
       ELSE UAdd(Tuple([i \in 1..8 |-> vlq[10 - i]]), UCast(offset(9), 8))

-----------------------------------------------------------------------------
(* bigint.rs: impl Vlq for BigUint.                                        *)

\* BigUint::to_radix_le: the digits of v, least significant first; <<0>> for 0
RECURSIVE to_radix_le(_, _)
to_radix_le(v, radix) ==
    IF v < radix THEN <<v>>
    ELSE <<v % radix>> \o to_radix_le(v \div radix, radix)

\* BigUint::from_radix_le: None (here -1) when a digit is not below the radix
RECURSIVE RadixValue(_, _)
RadixValue(digits, radix) ==
    IF digits = <<>> THEN 0
    ELSE Head(digits) + radix * RadixValue(Tail(digits), radix)

from_radix_le(digits, radix) ==
    IF \E i \in 1..Len(digits) : digits[i] >= radix THEN -1
    ELSE RadixValue(digits, radix)

\* the radix given to to_radix_le and from_radix_le: 0b0111_1111
BigRadix == 127

\* BigUint::to_writer; the _NoClear variant leaves out the clearing of the
\* top bit of the last byte
big_to_writer_NoClear(v) ==
    LET digits == to_radix_le(v, BigRadix)
    IN Tuple([i \in 1..Len(digits) |-> BitOr(digits[i], 128)])

big_to_writer(v) ==
    LET digits == to_radix_le(v, BigRadix)
    IN Tuple([i \in 1..Len(digits) |->
            IF i < Len(digits) THEN BitOr(digits[i], 128)
            ELSE BitAnd(BitOr(digits[i], 128), 127)])

\* BigUint::from_reader; the unwrap of None panics
RECURSIVE big_from_reader_loop(_, _, _)
big_from_reader_loop(s, p, digits) ==
    IF p >= Len(s)
    THEN [status |-> "eof", value |-> -1, pos |-> p]
    ELSE LET b == s[p + 1]
             ds == Append(digits, BitAnd(b, 127))
         IN IF BitAnd(b, 128) = 0
            THEN LET v == from_radix_le(ds, BigRadix)
                 IN IF v = -1
                    THEN [status |-> "panic", value |-> -1, pos |-> p + 1]
                    ELSE [status |-> "ok", value |-> v, pos |-> p + 1]
            ELSE big_from_reader_loop(s, p + 1, ds)

big_from_reader(s, p) == big_from_reader_loop(s, p, <<>>)

-----------------------------------------------------------------------------
(* The byte stream: std::io::Cursor<Vec<u8>>.                              *)

\* Write for Cursor<Vec<u8>>: the bytes go in at the cursor, over what is
\* there and past the end
CursorWrite(s, p, bytes) ==
    SubSeq(s, 1, p) \o bytes \o SubSeq(s, p + Len(bytes) + 1, Len(s))

\* WriteVlqExt::write_vlq on the cursor
write_vlq(ty, v) ==
    LET w == to_writer(ty, v)
    IN /\ stream' = IF w.status = "ok" THEN CursorWrite(stream, pos, w.bytes) ELSE stream
       /\ pos' = IF w.status = "ok" THEN pos + Len(w.bytes) ELSE pos
       /\ written' = Append(written, [ty |-> ty, val |-> v, status |-> w.status,
                                      len |-> Len(w.bytes)])
       /\ UNCHANGED <<reads, fin, fenc, fdec>>

\* Cursor::set_position(0)
set_position ==
    /\ pos # 0
    /\ pos' = 0
    /\ reads' = <<>>
    /\ UNCHANGED <<stream, written, fin, fenc, fdec>>

\* ReadVlqExt::read_vlq on the cursor
read_vlq(ty) ==
    LET r == from_reader(ty, stream, pos)
    IN /\ reads' = Append(reads, [ty |-> ty, from |-> pos, status |-> r.status,
                                  value |-> r.value])
       /\ pos' = r.pos
       /\ UNCHANGED <<stream, written, fin, fenc, fdec>>

\* WriteVlqExt::write_vlq of a BigUint on the cursor
big_write_vlq(v) ==
    LET bytes == big_to_writer(v)
    IN /\ stream' = CursorWrite(stream, pos, bytes)
       /\ pos' = pos + Len(bytes)
       /\ written' = Append(written, [ty |-> "BigUint", val |-> v, status |-> "ok",
                                      len |-> Len(bytes)])
       /\ UNCHANGED <<reads, fin, fenc, fdec>>

\* ReadVlqExt::read_vlq of a BigUint on the cursor
big_read_vlq ==
    LET r == big_from_reader(stream, pos)
    IN /\ reads' = Append(reads, [ty |-> "BigUint", from |-> pos, status |-> r.status,
                                  value |-> r.value])
       /\ pos' = r.pos
       /\ UNCHANGED <<stream, written, fin, fenc, fdec>>

\* a call of fast::encode on the input
FastEncode ==
    /\ fin # <<>>
    /\ fenc = <<>>
    /\ fenc' = encode(fin)
    /\ UNCHANGED <<stream, pos, written, reads, fin, fdec>>

\* a call of fast::decode on what encode returned
FastDecode ==
    /\ fenc # <<>>
    /\ fdec = <<>>
    /\ fdec' = decode(fenc.vlq)
    /\ UNCHANGED <<stream, pos, written, reads, fin, fenc>>

-----------------------------------------------------------------------------
(* Inputs.                                                                 *)

\* bytes whose bit lengths are 0..8: the powers of two and their predecessors
SampleBytes == {0, 1, 2, 3, 4, 7, 8, 15, 16, 31, 32, 63, 64, 127, 128, 255}

\* the values of nb bytes that have one sample byte between a low run and a
\* high run of 0x00 or 0xFF bytes: every bit length, MIN, MAX, -1, 0
Patterns(nb) ==
    { Tuple([i \in 1..nb |-> IF i < p THEN f ELSE IF i = p THEN b ELSE g]) :
        p \in 1..nb, b \in SampleBytes, f \in {0, 255}, g \in {0, 255} }

\* the values written in the round-trip runs: the patterns, every u8 and i8
\* value, and the 60000 of the crate documentation
StdValues(ty) ==
    Patterns(SizeOf(ty))
        \cup (IF SizeOf(ty) = 1 THEN {<<b>> : b \in Byte} ELSE {})
        \cup (IF SizeOf(ty) = 2 THEN {<<96, 234>>} ELSE {})

\* the values written back-to-back: the shortest and the longest encoding
SeqValues(ty) ==
    LET nb == SizeOf(ty)
    IN { UZero(nb), Tuple([i \in 1..nb |-> 255]) }

\* the bytes of a raw byte source after its zero groups: a small and a full
\* group, each as a continuation byte and as a terminal byte
RawBytes == {2, 127, 129, 255}

RECURSIVE SeqsUpTo(_, _)
SeqsUpTo(S, n) ==
    IF n = 0 THEN {<<>>}
    ELSE LET shorter == SeqsUpTo(S, n - 1)
         IN shorter \cup { Append(t, x) : t \in shorter, x \in S }

\* a run of zero groups, then up to MaxLen bytes
RawStreams ==
    { UZero(k) \o t : k \in 0..MaxPad, t \in SeqsUpTo(RawBytes, MaxLen) }

\* the first value of tier N of the fast codec, N in 1..9: the sum of
\* 2^(7k) for k in 1..N-1, whose byte i is 2^(8-i) for i < N
TierStart(N) == Tuple([i \in 1..8 |-> IF i < N THEN 2 ^ (8 - i) ELSE 0])

\* the inputs of the fast codec: the values within MaxDelta of a tier
\* boundary, of 0 and of u64::MAX, and the patterns
FastInputs ==
    LET near(x) == { UAdd(x, UFromByte(d, 8)).val : d \in 0..MaxDelta }
                     \cup { USub(x, UFromByte(d, 8)).val : d \in 0..MaxDelta }
    IN UNION { near(TierStart(N)) : N \in 1..9 } \cup Patterns(8)

\* the bytes of a byte source read as a BigUint: the lowest and the highest
\* digits, each with the top bit clear and with it set
BigRawBytes == {0, 1, 126, 127, 128, 129, 254, 255}

BigRawStreams == SeqsUpTo(BigRawBytes, MaxBigLen)

\* the BigUint values written: every value up to MaxBig, and the values at
\* which a power of 127 or of 128 adds a digit, up to 2^31 - 1
BigValues ==
    (0..MaxBig) \cup {16128, 16129, 16383, 16384, 2048382, 2048383, 2097151,
                      2097152, 260144640, 260144641, 268435455, 268435456,
                      2147483647}

-----------------------------------------------------------------------------
(* Specifications of the standard codec.                                   *)

InitStd ==
    /\ stream = <<>>
    /\ pos = 0
    /\ written = <<>>
    /\ reads = <<>>
    /\ fin = <<>>
    /\ fenc = <<>>
    /\ fdec = <<>>

\* before the rewind: the cursor is at the end and nothing was read
Writing == pos = Len(stream) /\ reads = <<>>

\* one value, written to an empty stream and read back with its type
WriteOne == \E ty \in Types : \E v \in StdValues(ty) :
    /\ written = <<>>
    /\ write_vlq(ty, v)

Rewind == written # <<>> /\ set_position

\* after the rewind, the next value is read with the type it was written as
ReadNext ==
    /\ ~Writing
    /\ Len(reads) < Len(written)
    /\ read_vlq(written[Len(reads) + 1].ty)

Next == WriteOne \/ Rewind \/ ReadNext

Spec == InitStd /\ [][Next]_vars

\* up to MaxValues values of any types, written back-to-back and read back
WriteMore == \E ty \in Types : \E v \in SeqValues(ty) :
    /\ Writing
    /\ Len(written) < MaxValues
    /\ write_vlq(ty, v)

NextSeq == WriteMore \/ Rewind \/ ReadNext

SpecSeq == InitStd /\ [][NextSeq]_vars

\* a byte source of any bytes, read once as any type
InitDec ==
    /\ stream \in RawStreams
    /\ pos = 0
    /\ written = <<>>
    /\ reads = <<>>
    /\ fin = <<>>
    /\ fenc = <<>>
    /\ fdec = <<>>

ReadRaw == \E ty \in Types :
    /\ reads = <<>>
    /\ read_vlq(ty)

NextDec == ReadRaw

SpecDec == InitDec /\ [][NextDec]_vars

-----------------------------------------------------------------------------
(* Specifications of the fast codec and of the BigUint codec.              *)

InitFast ==
    /\ stream = <<>>
    /\ pos = 0
    /\ written = <<>>
    /\ reads = <<>>
    /\ fin \in FastInputs
    /\ fenc = <<>>
    /\ fdec = <<>>

NextFast == FastEncode \/ FastDecode

SpecFast == InitFast /\ [][NextFast]_vars

\* one value up to MaxBig, written as a BigUint or as a u64, and read back
\* from the start as either
WriteBig == \E v \in BigValues :
    /\ written = <<>>
    /\ big_write_vlq(v)

WriteU64 == \E v \in BigValues :
    /\ written = <<>>
    /\ write_vlq("u64", NatToU(v, 8))

ReadBig ==
    /\ written # <<>>
    /\ reads = <<>>
    /\ big_read_vlq

ReadU64 ==
    /\ written # <<>>
    /\ reads = <<>>
    /\ read_vlq("u64")

NextBig == WriteBig \/ WriteU64 \/ Rewind \/ ReadBig \/ ReadU64

SpecBig == InitStd /\ [][NextBig]_vars

\* a byte source of any bytes, read once as a BigUint
InitBigDec ==
    /\ stream \in BigRawStreams
    /\ pos = 0
    /\ written = <<>>
    /\ reads = <<>>
    /\ fin = <<>>
    /\ fenc = <<>>
    /\ fdec = <<>>

ReadBigRaw ==
    /\ reads = <<>>
    /\ big_read_vlq

NextBigDec == ReadBigRaw

SpecBigDec == InitBigDec /\ [][NextBigDec]_vars

-----------------------------------------------------------------------------
(* What the claims about the standard codec speak of.                      *)

\* the number of significant bits of a byte
RECURSIVE ByteBits(_)
ByteBits(b) == IF b = 0 THEN 0 ELSE 1 + ByteBits(b \div 2)

\* the number of significant bits of a little-endian sequence of digits of
\* `bits` bits each
RECURSIVE BitLengthFrom(_, _, _)
BitLengthFrom(x, i, bits) ==
    IF i = 0 THEN 0
    ELSE IF x[i] # 0 THEN bits * (i - 1) + ByteBits(x[i])
    ELSE BitLengthFrom(x, i - 1, bits)

BitLength(x) == BitLengthFrom(x, Len(x), 8)

CeilDiv(a, b) == (a + b - 1) \div b

Max(a, b) == IF a >= b THEN a ELSE b

\* the sign bit of the pattern of a signed type
Negative(ty, v) == Signed(ty) /\ v[Len(v)] >= 128

\* top bit set: the terminal byte of the primitive codec
TopBit(b) == b >= 128

\* whether s has a terminal byte at or after position p, and the number of
\* bytes from p up to and including the first one
HasTerminal(s, p) == \E i \in (p + 1)..Len(s) : TopBit(s[i])

FirstTerminal(s, p) == CHOOSE i \in (p + 1)..Len(s) :
    TopBit(s[i]) /\ \A j \in (p + 1)..(i - 1) : ~TopBit(s[j])

\* the 7-bit groups of the bytes p+1..q of s, first byte least significant
Groups(s, p, q) == Tuple([i \in 1..(q - p) |-> s[p + i] % 128])

GroupsBitLength(s, p, q) == BitLengthFrom(Groups(s, p, q), q - p, 7)

\* C1: a value written with write_vlq to an empty stream and read from the
\* start with read_vlq of its type comes back Ok and equal, for every type
C1_RoundTrip ==
    /\ \A i \in 1..Len(written) : written[i].status = "ok"
    /\ \A i \in 1..Len(reads) :
        reads[1].from = 0 =>
            /\ reads[i].status = "ok"
            /\ reads[i].value = written[i].val

\* an i64 MIN was written and read back from the start
C1_Witness ==
    /\ Len(reads) = 1
    /\ reads[1].from = 0
    /\ reads[1].ty = "i64"
    /\ written[1].val = <<0, 0, 0, 0, 0, 0, 0, 128>>
    /\ reads[1].value = <<0, 0, 0, 0, 0, 0, 0, 128>>

\* C4: write_vlq of 60000 as u16 emits exactly 0b11100000, 0b11010100,
\* 0b00000011: continuation bit set on every byte except the last
C4_Example60000 ==
    (Len(written) = 1 /\ written[1].ty = "u16" /\ written[1].val = <<96, 234>>)
        => stream = <<224, 212, 3>>

\* C7: to_writer emits max(1, ceil(bitlength(u)/7)) bytes: one byte for zero,
\* 10 for u64::MAX and i64::MIN, ceil(w/7) for every negative signed value
C7_MinimalLength ==
    Len(written) = 1 =>
        LET ty == written[1].ty
            v == written[1].val
            w == 8 * SizeOf(ty)
        IN /\ written[1].status = "ok"
           /\ Len(stream) = Max(1, CeilDiv(BitLength(v), 7))
           /\ v = UZero(SizeOf(ty)) => Len(stream) = 1
           /\ (SizeOf(ty) = 8 /\ v = <<255, 255, 255, 255, 255, 255, 255, 255>>)
                => Len(stream) = 10
           /\ (SizeOf(ty) = 8 /\ v = <<0, 0, 0, 0, 0, 0, 0, 128>>)
                => Len(stream) = 10
           /\ Negative(ty, v) => Len(stream) = CeilDiv(w, 7)

\* -1 as i128 was written: 19 bytes
C7_Witness ==
    /\ Len(written) = 1
    /\ written[1].ty = "i128"
    /\ Negative("i128", written[1].val)
    /\ Len(stream) = 19

\* C6: after v1..vk are written back-to-back, k reads of the matching types
\* from the start return v1..vk in order, each read ends right after the
\* first terminal byte at or after its start, and the last read leaves the
\* cursor at the end of the stream
C6_ExactConsumption ==
    (reads # <<>> /\ reads[1].from = 0) =>
        /\ \A i \in 1..Len(reads) :
            /\ reads[i].status = "ok"
            /\ reads[i].value = written[i].val
            /\ HasTerminal(stream, reads[i].from)
            /\ LET end == FirstTerminal(stream, reads[i].from)
               IN IF i < Len(reads) THEN reads[i + 1].from = end ELSE pos = end
        /\ Len(reads) = Len(written) => pos = Len(stream)

\* two values of different types and lengths were written and both read back
C6_Witness ==
    /\ Len(written) = 2
    /\ Len(reads) = 2
    /\ reads[1].from = 0
    /\ written[1].ty = "u64"
    /\ written[2].ty = "i16"
    /\ written[1].len = 10
    /\ written[2].len = 1
    /\ pos = 11

\* C3: a byte sequence that ends in a terminal byte and whose 7-bit groups
\* represent a value of 2^w or more is refused with "too long to fit",
\* whatever its length
C3_OverflowDetected ==
    \A i \in 1..Len(reads) :
        LET r == reads[i]
        IN (/\ HasTerminal(stream, r.from)
            /\ GroupsBitLength(stream, r.from, FirstTerminal(stream, r.from))
                  > 8 * SizeOf(r.ty))
           => r.status = "overflow"

\* C5 as stated: a source with no terminal byte fails with the end-of-input
\* error and with no other
C5_OnlyEof ==
    \A i \in 1..Len(reads) :
        ~HasTerminal(stream, reads[i].from) => reads[i].status = "eof"

\* C5, amended: a source with no terminal byte never yields a value; it fails
\* with the end-of-input error, or with the overflow error, and that only
\* when the groups it holds already represent a value of 2^w or more
C5_EofOrOverflow ==
    \A i \in 1..Len(reads) :
        LET r == reads[i]
        IN ~HasTerminal(stream, r.from) =>
            /\ r.status \in {"eof", "overflow"}
            /\ r.value = <<>>
            /\ GroupsBitLength(stream, r.from, Len(stream)) <= 8 * SizeOf(r.ty)
                 => r.status = "eof"

\* a u64 was read from three continuation bytes and the end of input met
C5_Witness ==
    /\ Len(reads) = 1
    /\ reads[1].ty = "u64"
    /\ Len(stream) = 3
    /\ ~HasTerminal(stream, 0)
    /\ reads[1].status = "eof"
    /\ pos = 3

-----------------------------------------------------------------------------
(* What the claims about the fast codec and the BigUint codec speak of.    *)

ULe(a, b) == ~ULt(b, a)

\* the tier of n: the N with off(N) <= n < off(N+1), 9 from off(9) on
Tier(n) == CHOOSE N \in 1..9 :
    /\ ULe(TierStart(N), n)
    /\ N < 9 => ULt(n, TierStart(N + 1))

U64Max == Tuple([i \in 1..8 |-> 255])

\* C2: decode(encode(n)) = n, with no underflow in the subtraction of encode
\* and no overflow in the addition of decode
C2_FastRoundTrip ==
    /\ fenc # <<>> => ~fenc.ovf
    /\ fdec # <<>> => (fdec.val = fin /\ ~fdec.ovf)

\* u64::MAX was encoded and decoded
C2_Witness ==
    /\ fin = U64Max
    /\ fenc # <<>>
    /\ fdec # <<>>
    /\ fdec.val = U64Max

RECURSIVE UToNat(_)
UToNat(x) == IF x = <<>> THEN 0 ELSE Head(x) + 256 * UToNat(Tail(x))

\* the value written, as a natural number
WrittenNat(w) == IF w.ty = "BigUint" THEN w.val ELSE UToNat(w.val)

\* C9: for a value that fits u64 the bytes written for it as u64 and as
\* BigUint are the same, and either from_reader decodes them to the value
C9_OneConvention ==
    Len(written) = 1 =>
        LET v == WrittenNat(written[1])
        IN /\ stream = to_writer("u64", NatToU(v, 8)).bytes
           /\ stream = big_to_writer(v)
           /\ \A i \in 1..Len(reads) :
                reads[i].from = 0 =>
                    /\ reads[i].status = "ok"
                    /\ IF reads[i].ty = "BigUint"
                       THEN reads[i].value = v
                       ELSE reads[i].value = NatToU(v, 8)

\* the base-128 digits of v, least significant first; <<0>> for 0
RECURSIVE Base128(_)
Base128(v) == IF v < 128 THEN <<v>> ELSE <<v % 128>> \o Base128(v \div 128)

\* C10: the bytes BigUint::to_writer writes are the base-128 digits of v,
\* least significant first, with the top bit set on all but the last
C10_Base128Digits ==
    (Len(written) = 1 /\ written[1].ty = "BigUint") =>
        LET ds == Base128(written[1].val)
        IN /\ Len(stream) = Len(ds)
           /\ \A i \in 1..Len(ds) :
                /\ stream[i] % 128 = ds[i]
                /\ TopBit(stream[i]) <=> i < Len(ds)

\* whether s has a byte with the continuation bit clear at or after position
\* p, and the position of the first one
HasClear(s, p) == \E i \in (p + 1)..Len(s) : ~TopBit(s[i])

FirstClear(s, p) == CHOOSE i \in (p + 1)..Len(s) :
    ~TopBit(s[i]) /\ \A j \in (p + 1)..(i - 1) : TopBit(s[j])

\* positional radix-128 reconstruction, least significant digit first
RECURSIVE Radix128(_)
Radix128(digits) ==
    IF digits = <<>> THEN 0 ELSE Head(digits) + 128 * Radix128(Tail(digits))

\* C11: on a byte sequence that holds a byte with the continuation bit
\* clear, BigUint::from_reader returns Ok with the radix-128 value of the
\* 7-bit digits up to that byte; it neither panics nor fails, for any digit
\* 0..127
C11_OnlyTruncation ==
    \A i \in 1..Len(reads) :
        LET r == reads[i]
        IN (r.ty = "BigUint" /\ HasClear(stream, r.from)) =>
            /\ r.status = "ok"
            /\ r.value = Radix128(Groups(stream, r.from, FirstClear(stream, r.from)))

\* C12: a BigUint written with to_writer to an empty stream and read from
\* the start with BigUint::from_reader comes back Ok and equal
C12_BigRoundTrip ==
    (Len(written) = 1 /\ written[1].ty = "BigUint") =>
        \A i \in 1..Len(reads) :
            (reads[i].ty = "BigUint" /\ reads[i].from = 0) =>
                /\ reads[i].status = "ok"
                /\ reads[i].value = written[1].val

\* 127^4 - 1, four digits at the top of the digit range, was written and
\* read back
C12_Witness ==
    /\ Len(written) = 1
    /\ written[1].ty = "BigUint"
    /\ written[1].val = 260144640
    /\ stream = <<254, 254, 254, 126>>
    /\ Len(reads) = 1
    /\ reads[1].ty = "BigUint"
    /\ reads[1].from = 0
    /\ reads[1].value = 260144640

\* C13: to_writer never stores outside vlq_buf: for every primitive type of
\* byte size s and every value, no store panics and the slice written has
\* 1 <= index <= s * 8 / 7 + 1
C13_WithinBuffer ==
    \A i \in 1..Len(written) :
        LET w == written[i]
        IN w.ty \in Types =>
            /\ w.status = "ok"
            /\ 1 <= w.len
            /\ w.len <= (SizeOf(w.ty) * 8) \div 7 + 1
            /\ Len(stream) = w.len

\* u128::MAX was written: the 19 bytes fill the buffer
C13_Witness ==
    /\ Len(written) = 1
    /\ written[1].ty = "u128"
    /\ written[1].val = Tuple([i \in 1..16 |-> 255])
    /\ written[1].status = "ok"
    /\ written[1].len = 19

====
